---- MODULE Spec2Model ----
(***************************************************************************)
(* Model of biomero_schema/models.py: the pydantic models of the workflow  *)
(* manifest.  A document is a key/value tree; WorkflowSchema.model_validate *)
(* turns it into a record or a list of errors, model_dump turns the record *)
(* back into a document.  The field tables below are the class bodies of   *)
(* models.py, one row per Field(...) declaration.                          *)
(***************************************************************************)
EXTENDS Integers, Sequences, FiniteSets, TLC

(***************************************************************************)
(* Values of a document: tagged scalars, lists, dicts and null.  A float   *)
(* is kept as the integer it equals, under the tag "float", so that 4 and  *)
(* 4.0 are different values.                                               *)
(***************************************************************************)
S(x) == [t |-> "str", v |-> x]
I(n) == [t |-> "int", v |-> n]
F(n) == [t |-> "float", v |-> n]
B(b) == [t |-> "bool", v |-> b]
L(s) == [t |-> "list", v |-> s]
D(f) == [t |-> "dict", v |-> f]
M(f) == [t |-> "model", v |-> f]
None == [t |-> "none", v |-> "none"]

EmptyDict == [k \in {} |-> None]

Without(d, k) == [x \in (DOMAIN d) \ {k} |-> d[x]]

With(d, k, val) == [x \in (DOMAIN d) \cup {k} |-> IF x = k THEN val ELSE d[x]]

(***************************************************************************)
(* Field types, as the annotations of models.py spell them.                *)
(***************************************************************************)
TStr == [k |-> "str", vals |-> {}, model |-> "", min |-> 0]
TFloat == [k |-> "float", vals |-> {}, model |-> "", min |-> 0]
TBool == [k |-> "bool", vals |-> {}, model |-> "", min |-> 0]
TLiteral(vals) == [k |-> "literal", vals |-> vals, model |-> "", min |-> 0]
TListStr == [k |-> "list_str", vals |-> {}, model |-> "", min |-> 0]
TStrOrListStr == [k |-> "str_or_list_str", vals |-> {}, model |-> "", min |-> 0]
TScalarUnion == [k |-> "scalar_union", vals |-> {}, model |-> "", min |-> 0]
TModel(m) == [k |-> "model", vals |-> {}, model |-> m, min |-> 0]
TListModel(m, min) == [k |-> "list_model", vals |-> {}, model |-> m, min |-> min]

\* Field(..., alias=a): a required field.
Required(name, alias, type) ==
  [name |-> name, alias |-> alias, required |-> TRUE, optional |-> FALSE,
   default |-> None, type |-> type]

\* Optional[T] = Field(None, alias=a): absent and null both give None.
Nullable(name, alias, type) ==
  [name |-> name, alias |-> alias, required |-> FALSE, optional |-> TRUE,
   default |-> None, type |-> type]

\* T = Field(default, ...): a default that is not None, on a type that is not Optional.
Defaulted(name, alias, default, type) ==
  [name |-> name, alias |-> alias, required |-> FALSE, optional |-> FALSE,
   default |-> default, type |-> type]

AuthorFields ==
  << Required("name", "name", TStr),
     Nullable("email", "email", TStr),
     Nullable("affiliations", "affiliations", TListStr) >>

InstitutionFields ==
  << Required("id", "id", TStr),
     Nullable("name", "name", TStr) >>

CitationFields ==
  << Required("name", "name", TStr),
     Nullable("doi", "doi", TStr),
     Required("license", "license", TStr),
     Nullable("description", "description", TStr) >>

ContainerTypes == {"oci", "singularity"}

ContainerImageFields ==
  << Required("image", "image", TStr),
     Required("type", "type", TLiteral(ContainerTypes)),
     Nullable("platforms", "platforms", TListStr) >>

CudaRequirementsFields ==
  << Nullable("device_memory_min", "device-memory-min", TFloat),
     Nullable("cuda_compute_capability", "cuda-compute-capability", TStrOrListStr) >>

ResourcesFields ==
  << Nullable("networking", "networking", TBool),
     Nullable("ram_min", "ram-min", TFloat),
     Nullable("cores_min", "cores-min", TFloat),
     Nullable("gpu", "gpu", TBool),
     Nullable("cuda_requirements", "cuda-requirements", TModel("CudaRequirements")),
     Nullable("cpuAVX", "cpuAVX", TBool),
     Nullable("cpuAVX2", "cpuAVX2", TBool) >>

\* input_folder and output_folder are declared without an alias.
ConfigurationFields ==
  << Nullable("input_folder", "input_folder", TStr),
     Nullable("output_folder", "output_folder", TStr),
     Nullable("resources", "resources", TModel("Resources")) >>

ParameterTypes ==
  {"Number", "String", "integer", "float", "boolean", "string", "file", "image", "array"}

\* format and sub_type are Optional[str] on Parameter; FileParameter,
\* ImageParameter and ArrayParameter are not referenced by it.
ParameterFields ==
  << Required("id", "id", TStr),
     Required("type", "type", TLiteral(ParameterTypes)),
     Nullable("name", "name", TStr),
     Nullable("description", "description", TStr),
     Nullable("value_key", "value-key", TStr),
     Nullable("command_line_flag", "command-line-flag", TStr),
     Nullable("default_value", "default-value", TScalarUnion),
     Nullable("optional", "optional", TBool),
     Nullable("set_by_server", "set-by-server", TBool),
     Nullable("format", "format", TStr),
     Nullable("sub_type", "sub-type", TStr) >>

OutputParameterTypes == {"Number", "String"}

OutputParameterFields ==
  << Required("id", "id", TStr),
     Required("type", "type", TLiteral(OutputParameterTypes)),
     Nullable("name", "name", TStr),
     Nullable("description", "description", TStr),
     Nullable("value_key", "value-key", TStr),
     Nullable("command_line_flag", "command-line-flag", TStr),
     Nullable("default_value", "default-value", TScalarUnion),
     Nullable("optional", "optional", TBool),
     Nullable("set_by_server", "set-by-server", TBool) >>

ProblemClasses ==
  {"object-segmentation", "pixel-classification", "object-counting",
   "object-detection", "filament-tree-tracing", "filament-networks-tracing",
   "landmark-detection", "particle-tracking", "object-tracking"}

\* min_length of WorkflowSchema.citations.
CitationsMinLength == 1

WorkflowSchemaFields ==
  << Required("name", "name", TStr),
     Required("description", "description", TStr),
     Required("schema_version", "schema-version", TStr),
     Defaulted("authors", "authors", L(<< >>), TListModel("Author", 0)),
     Defaulted("institutions", "institutions", L(<< >>), TListModel("Institution", 0)),
     Defaulted("citations", "citations", L(<< >>),
               TListModel("Citation", CitationsMinLength)),
     Nullable("problem_class", "problem-class", TLiteral(ProblemClasses)),
     Required("container_image", "container-image", TModel("ContainerImage")),
     Nullable("configuration", "configuration", TModel("Configuration")),
     Required("inputs", "inputs", TListModel("Parameter", 0)),
     Defaulted("outputs", "outputs", L(<< >>), TListModel("OutputParameter", 0)),
     Required("command_line", "command-line", TStr) >>

Fields(m) ==
  CASE m = "Author" -> AuthorFields
    [] m = "Institution" -> InstitutionFields
    [] m = "Citation" -> CitationFields
    [] m = "ContainerImage" -> ContainerImageFields
    [] m = "CudaRequirements" -> CudaRequirementsFields
    [] m = "Resources" -> ResourcesFields
    [] m = "Configuration" -> ConfigurationFields
    [] m = "Parameter" -> ParameterFields
    [] m = "OutputParameter" -> OutputParameterFields
    [] m = "WorkflowSchema" -> WorkflowSchemaFields

\* class Config: populate_by_name / validate_by_name, set on WorkflowSchema only;
\* a nested model has its own (default) configuration.
PopulateByName(m) == m = "WorkflowSchema"

(***************************************************************************)
(* Validation.  An error is pydantic's: the location of the offending      *)
(* value and the error type.  A result is the validated value and the set  *)
(* of errors found below it; the value counts only when the set is empty.  *)
(***************************************************************************)
Err(loc, type) == [loc |-> loc, type |-> type]

Ok(val) == [val |-> val, errs |-> {}]

Bad(loc, type) == [val |-> None, errs |-> {Err(loc, type)}]

\* The numeric strings of the documents considered, with the number each spells.
NumericStrings == ("0" :> 0) @@ ("1" :> 1) @@ ("4" :> 4)

TrueStrings == {"1", "on", "t", "true", "y", "yes"}

FalseStrings == {"0", "off", "f", "false", "n", "no"}

\* str: no coercion from another scalar.
ValidateStr(v, loc) ==
  IF v.t = "str" THEN Ok(v) ELSE Bad(loc, "string_type")

\* float (lax mode): an int or a bool is converted, a numeric string is parsed.
ValidateFloat(v, loc) ==
  CASE v.t = "float" -> Ok(v)
    [] v.t = "int" -> Ok(F(v.v))
    [] v.t = "bool" -> Ok(F(IF v.v THEN 1 ELSE 0))
    [] v.t = "str" -> IF v.v \in DOMAIN NumericStrings
                        THEN Ok(F(NumericStrings[v.v]))
                        ELSE Bad(loc, "float_parsing")
    [] OTHER -> Bad(loc, "float_type")

\* bool (lax mode): 0/1 and the yes/no strings are converted.
ValidateBool(v, loc) ==
  CASE v.t = "bool" -> Ok(v)
    [] v.t \in {"int", "float"} -> IF v.v \in {0, 1}
                                     THEN Ok(B(v.v = 1))
                                     ELSE Bad(loc, "bool_parsing")
    [] v.t = "str" -> IF v.v \in TrueStrings THEN Ok(B(TRUE))
                      ELSE IF v.v \in FalseStrings THEN Ok(B(FALSE))
                      ELSE Bad(loc, "bool_parsing")
    [] OTHER -> Bad(loc, "bool_type")

\* Literal[...]: the value must be one of the listed strings.
ValidateLiteral(vals, v, loc) ==
  IF v.t = "str" /\ v.v \in vals THEN Ok(v) ELSE Bad(loc, "literal_error")

\* Fail-fast variant: the errors of the first part that has any.
CollectFirst(rs) ==
  LET bad == {i \in DOMAIN rs : rs[i].errs # {}}
  IN IF bad = {} THEN {} ELSE rs[CHOOSE i \in bad : \A j \in bad : i <= j].errs

\* The errors of the parts of a value, all of them.
CollectErrors(rs) == UNION {rs[i].errs : i \in DOMAIN rs}

\* List[str]
ValidateListStr(v, loc) ==
  IF v.t # "list" THEN Bad(loc, "list_type")
  ELSE LET rs == [i \in 1..Len(v.v) |-> ValidateStr(v.v[i], loc \o <<ToString(i - 1)>>)]
           errs == CollectErrors(rs)
       IN IF errs = {} THEN Ok(v) ELSE [val |-> None, errs |-> errs]

\* Union[str, List[str]]: a failure reports each member of the union.
ValidateStrOrListStr(v, loc) ==
  CASE v.t = "str" -> Ok(v)
    [] v.t = "list" /\ ValidateListStr(v, loc).errs = {} -> Ok(v)
    [] OTHER -> [val |-> None,
                 errs |-> ValidateStr(v, loc \o <<"str">>).errs
                          \cup ValidateListStr(v, loc \o <<"list[str]">>).errs]

\* Union[str, int, float, bool] (smart mode): a value of a member type is kept as it is.
ValidateScalarUnion(v, loc) ==
  IF v.t \in {"str", "int", "float", "bool"} THEN Ok(v)
  ELSE [val |-> None,
        errs |-> {Err(loc \o <<"str">>, "string_type"), Err(loc \o <<"int">>, "int_type"),
                  Err(loc \o <<"float">>, "float_type"), Err(loc \o <<"bool">>, "bool_type")}]

\* The key under which a document spells a field: the alias, or, where the
\* model populates by name, the field's name; "" when the document has neither.
FoundKey(m, f, d) ==
  IF f.alias \in DOMAIN d THEN f.alias
  ELSE IF PopulateByName(m) /\ f.name \in DOMAIN d THEN f.name
  ELSE ""

RECURSIVE ValidateValue(_, _, _)
RECURSIVE ValidateModel(_, _, _)

\* Variant in which an absent field takes its default whether required or not.
ValidateFieldLenient(m, f, d, loc) ==
  LET key == FoundKey(m, f, d)
  IN IF key = "" THEN Ok(f.default)
     ELSE IF f.optional /\ d[key].t = "none" THEN Ok(None)
     ELSE ValidateValue(f.type, d[key], loc \o <<key>>)

\* One Field(...) of model m against the dict d; a default is not validated.
ValidateField(m, f, d, loc) ==
  LET key == FoundKey(m, f, d)
  IN IF key = ""
       THEN IF f.required THEN Bad(loc \o <<f.alias>>, "missing") ELSE Ok(f.default)
       ELSE IF f.optional /\ d[key].t = "none" THEN Ok(None)
       ELSE ValidateValue(f.type, d[key], loc \o <<key>>)

\* List[Model], with Field(min_length=...).
ValidateListModel(ty, v, loc) ==
  IF v.t # "list" THEN Bad(loc, "list_type")
  ELSE LET rs == [i \in 1..Len(v.v) |->
                    ValidateValue(TModel(ty.model), v.v[i], loc \o <<ToString(i - 1)>>)]
           errs == CollectErrors(rs)
       IN IF errs # {} THEN [val |-> None, errs |-> errs]
          ELSE IF Len(v.v) < ty.min THEN Bad(loc, "too_short")
          ELSE Ok(L([i \in 1..Len(v.v) |-> rs[i].val]))

ValidateValue(ty, v, loc) ==
  CASE ty.k = "str" -> ValidateStr(v, loc)
    [] ty.k = "float" -> ValidateFloat(v, loc)
    [] ty.k = "bool" -> ValidateBool(v, loc)
    [] ty.k = "literal" -> ValidateLiteral(ty.vals, v, loc)
    [] ty.k = "list_str" -> ValidateListStr(v, loc)
    [] ty.k = "str_or_list_str" -> ValidateStrOrListStr(v, loc)
    [] ty.k = "scalar_union" -> ValidateScalarUnion(v, loc)
    [] ty.k = "model" -> IF v.t = "dict" THEN ValidateModel(ty.model, v.v, loc)
                         ELSE Bad(loc, "model_type")
    [] ty.k = "list_model" -> ValidateListModel(ty, v, loc)

\* A model against a dict: every field is validated, keys that are no field
\* of the model are ignored (extra = "ignore", the default).
ValidateModel(m, d, loc) ==
  LET fs == Fields(m)
      rs == [i \in 1..Len(fs) |-> ValidateField(m, fs[i], d, loc)]
      errs == CollectErrors(rs)
  IN IF errs # {} THEN [val |-> None, errs |-> errs]
     ELSE Ok(M([n \in {fs[i].name : i \in 1..Len(fs)} |->
                  rs[CHOOSE i \in 1..Len(fs) : fs[i].name = n].val]))

\* WorkflowSchema.model_validate(doc): the record, or the errors (ValidationError).
validate(doc) ==
  LET r == ValidateModel("WorkflowSchema", doc, << >>)
  IN [ok |-> r.errs = {}, record |-> r.val, errors |-> r.errs]

(***************************************************************************)
(* Serialization: model_dump of the record, a dict keyed by the aliases    *)
(* (by_alias) or by the field names, with every field of the model in it.  *)
(***************************************************************************)
RECURSIVE DumpModel(_, _, _)

DumpValue(ty, val, by_alias) ==
  CASE val.t = "model" -> D(DumpModel(ty.model, val.v, by_alias))
    [] val.t = "list" /\ ty.k = "list_model" ->
         L([i \in 1..Len(val.v) |-> D(DumpModel(ty.model, val.v[i].v, by_alias))])
    [] OTHER -> val

DumpKey(f, by_alias) == IF by_alias THEN f.alias ELSE f.name

DumpModel(m, rec, by_alias) ==
  LET fs == Fields(m)
  IN [key \in {DumpKey(fs[i], by_alias) : i \in 1..Len(fs)} |->
        LET f == fs[CHOOSE i \in 1..Len(fs) : DumpKey(fs[i], by_alias) = key]
        IN DumpValue(f.type, rec[f.name], by_alias)]

\* record.model_dump(by_alias=by_alias)
model_dump(record, by_alias) == D(DumpModel("WorkflowSchema", record.v, by_alias))

(***************************************************************************)
(* The documents.  A run starts from a sample manifest, edits it, and      *)
(* validates the outcome; an accepted record may be serialized.            *)
(***************************************************************************)
Dict2(k1, v1, k2, v2) == (k1 :> v1) @@ (k2 :> v2)

Dict3(k1, v1, k2, v2, k3, v3) == (k1 :> v1) @@ (k2 :> v2) @@ (k3 :> v3)

CitationDoc == D(Dict2("name", S("tool"), "license", S("MIT")))

ContainerDoc == D(Dict2("image", S("wf"), "type", S("oci")))

ThresholdDoc == D(Dict2("id", S("threshold"), "type", S("float")))

RadiusDoc == D(Dict3("id", S("radius"), "type", S("integer"), "default-value", I(4)))

\* Only the required fields, and one citation.
MinimalDoc ==
  ("name" :> S("wf")) @@ ("description" :> S("a workflow"))
  @@ ("schema-version" :> S("1.0.0")) @@ ("citations" :> L(<<CitationDoc>>))
  @@ ("container-image" :> ContainerDoc) @@ ("inputs" :> L(<< >>))
  @@ ("command-line" :> S("python run.py"))

\* A manifest with authors, institutions, resources, inputs and outputs.
FullDoc ==
  MinimalDoc
  @@ ("authors" :> L(<<D(Dict2("name", S("Ada"), "affiliations", L(<<S("inst-x")>>)))>>))
  @@ ("institutions" :> L(<<D(Dict2("id", S("inst-x"), "name", S("X Lab")))>>))
  @@ ("problem-class" :> S("object-counting"))
  @@ ("configuration" :>
        D("resources" :> D(Dict3("ram-min", F(4), "gpu", B(TRUE),
                                 "cuda-requirements", D("device-memory-min" :> F(1))))))
  @@ ("outputs" :> L(<<D(Dict2("id", S("count"), "type", S("Number")))>>))

\* A manifest under construction: its third input has no id yet.
DraftDoc ==
  With(MinimalDoc, "inputs",
       L(<<ThresholdDoc, RadiusDoc, D("type" :> S("integer"))>>))

BaseDocs == <<MinimalDoc, FullDoc, DraftDoc>>

\* Assignments of a root key: <<key, value>>.
RootEdits ==
  << <<"name", I(5)>>,
     <<"schema_version", S("1.0.0")>>,
     <<"command_line", S("python run.py")>>,
     <<"problem-class", S("bogus")>>,
     <<"problem_class", S("object-tracking")>>,
     <<"x-note", S("kept")>>,
     <<"description", None>>,
     <<"citations", L(<< >>)>>,
     <<"container-image", D(Dict2("image", S("wf"), "type", S("docker")))>>,
     <<"container-image", D("image" :> S("wf"))>>,
     <<"container-image", D("type" :> S("singularity"))>>,
     <<"configuration", D("input-folder" :> S("/data"))>>,
     <<"configuration", D("input_folder" :> S("/data"))>>,
     <<"configuration", D("resources" :> D(Dict2("ram-min", I(4), "networking", S("yes"))))>>,
     <<"configuration", D("resources" :> D("ram_min" :> F(4)))>>,
     <<"configuration", D("resources" :> D("cores-min" :> S("many")))>>,
     <<"configuration", D(EmptyDict)>> >>

\* Items appended to a list of the document: <<list key, item>>.
ItemEdits ==
  << <<"inputs", ThresholdDoc>>,
     <<"inputs", D(Dict3("id", S("threshold"), "type", S("Number"), "value-key", S("[T]")))>>,
     <<"inputs", D(Dict3("id", S("sigma"), "type", S("float"), "value_key", S("[S]")))>>,
     <<"inputs", D("id" :> S("orphan"))>>,
     <<"inputs", D(Dict2("id", S("mode"), "type", S("enum")))>>,
     <<"inputs", D(Dict2("id", S("img"), "type", S("image")))>>,
     <<"inputs", D(Dict3("id", S("img"), "type", S("image"), "format", S("tif")))>>,
     <<"inputs", D(Dict3("id", S("img"), "type", S("image"), "format", S("tif"))
                   @@ ("sub-type" :> S("grayscale")))>>,
     <<"inputs", D(Dict3("id", S("img"), "type", S("image"), "format", S("bmp"))
                   @@ ("sub-type" :> S("color")))>>,
     <<"inputs", D(Dict3("id", S("img"), "type", S("image"), "format", S("png"))
                   @@ ("sub-type" :> S("sepia")))>>,
     <<"inputs", D(Dict3("id", S("table"), "type", S("file"), "format", S("csv")))>>,
     <<"inputs", D(Dict2("id", S("table"), "type", S("file")))>>,
     <<"inputs", D(Dict3("id", S("arr"), "type", S("array"), "format", S("npy")))>>,
     <<"inputs", D(Dict3("id", S("arr"), "type", S("array"), "format", S("txt")))>>,
     <<"outputs", D(Dict2("id", S("count"), "type", S("Number")))>>,
     <<"outputs", D(Dict2("id", S("area"), "type", S("integer")))>>,
     <<"authors", D(Dict2("name", S("Bo"), "affiliations", L(<<S("inst-x")>>)))>>,
     <<"authors", D("email" :> S("bo@x.org"))>>,
     <<"institutions", D("id" :> S("inst-x"))>>,
     <<"institutions", D("id" :> S("inst-y"))>>,
     <<"institutions", D("name" :> S("Y Lab"))>>,
     <<"citations", D("name" :> S("other"))>> >>

\* The number of edits made to a sample manifest before it is validated.
MaxEdits == 2

NoResult == [ok |-> FALSE, record |-> None, errors |-> {}]

VARIABLES doc, edits, pc, result, out, by_alias

vars == <<doc, edits, pc, result, out, by_alias>>

Init ==
  /\ doc \in {BaseDocs[i] : i \in 1..Len(BaseDocs)}
  /\ edits = 0
  /\ pc = "editing"
  /\ result = NoResult
  /\ out = None
  /\ by_alias = TRUE

Edited(d) ==
  /\ pc = "editing"
  /\ edits < MaxEdits
  /\ doc' = d
  /\ edits' = edits + 1
  /\ UNCHANGED <<pc, result, out, by_alias>>

\* doc[key] = value
SetKey == \E i \in 1..Len(RootEdits) : Edited(With(doc, RootEdits[i][1], RootEdits[i][2]))

\* del doc[key]
RemoveKey == \E k \in DOMAIN doc : Edited(Without(doc, k))

\* doc.setdefault(key, []).append(item)
AppendItem ==
  \E i \in 1..Len(ItemEdits) :
    LET k == ItemEdits[i][1]
        old == IF k \in DOMAIN doc /\ doc[k].t = "list" THEN doc[k].v ELSE << >>
    IN Edited(With(doc, k, L(Append(old, ItemEdits[i][2]))))

\* WorkflowSchema.model_validate(doc)
Validate ==
  /\ pc = "editing"
  /\ result' = validate(doc)
  /\ pc' = "validated"
  /\ UNCHANGED <<doc, edits, out, by_alias>>

\* record.model_dump(by_alias=b), of an accepted record
Serialize ==
  /\ pc = "validated"
  /\ result.ok
  /\ \E b \in BOOLEAN :
       /\ out' = model_dump(result.record, b)
       /\ by_alias' = b
  /\ pc' = "serialized"
  /\ UNCHANGED <<doc, edits, result>>

\* The next manifest.
NewDocument ==
  /\ pc \in {"validated", "serialized"}
  /\ doc' \in {BaseDocs[i] : i \in 1..Len(BaseDocs)}
  /\ edits' = 0
  /\ pc' = "editing"
  /\ result' = NoResult
  /\ out' = None
  /\ by_alias' = TRUE

Next == SetKey \/ RemoveKey \/ AppendItem \/ Validate \/ Serialize \/ NewDocument

Spec == Init /\ [][Next]_vars

(***************************************************************************)
(* What the properties speak of.                                           *)
(***************************************************************************)
Validated == pc # "editing"

Accepted == pc # "editing" /\ result.ok

\* The validated entries of a list field of the accepted record.
Items(name) == result.record.v[name].v

IsStr(val) == val.t = "str"

\* Literal sets of ImageParameter and ArrayParameter.
ImageSubTypes == {"grayscale", "color", "binary", "labeled", "class"}

ImageFormats == {"tif", "png", "jpg", "jpeg", "tiff", "ometiff"}

ArrayFormats == {"npy", "npz"}

\* Deep equality of two values.
RECURSIVE Same(_, _)
Same(a, b) ==
  /\ a.t = b.t
  /\ CASE a.t \in {"dict", "model"} ->
            /\ DOMAIN a.v = DOMAIN b.v
            /\ \A k \in DOMAIN a.v : Same(a.v[k], b.v[k])
       [] a.t = "list" ->
            /\ Len(a.v) = Len(b.v)
            /\ \A i \in 1..Len(a.v) : Same(a.v[i], b.v[i])
       [] OTHER -> a.v = b.v

\* Every entry of document b is in document a, unchanged.
RECURSIVE Contains(_, _)
Contains(a, b) ==
  /\ a.t = b.t
  /\ CASE b.t = "dict" ->
            \A k \in DOMAIN b.v : k \in DOMAIN a.v /\ Contains(a.v[k], b.v[k])
       [] b.t = "list" ->
            /\ Len(a.v) = Len(b.v)
            /\ \A i \in 1..Len(b.v) : Contains(a.v[i], b.v[i])
       [] OTHER -> a.v = b.v

\* The required root fields, <<external name, internal name>>.
RootRequired ==
  { <<"name", "name">>, <<"description", "description">>,
    <<"schema-version", "schema_version">>, <<"container-image", "container_image">>,
    <<"inputs", "inputs">>, <<"command-line", "command_line">> }

\* The required fields of the entries of a list.
NestedRequired ==
  ("authors" :> {"name"}) @@ ("institutions" :> {"id"})
  @@ ("citations" :> {"name", "license"}) @@ ("inputs" :> {"id", "type"})

\* The key of a document that spells the container image, "" when none does.
ContainerKey(d) ==
  IF "container-image" \in DOMAIN d THEN "container-image"
  ELSE IF "container_image" \in DOMAIN d THEN "container_image" ELSE ""

\* The paths of the required fields that document d lacks.
MissingLocs(d) ==
  { <<r[1]>> : r \in {q \in RootRequired : q[1] \notin DOMAIN d /\ q[2] \notin DOMAIN d} }
  \cup UNION { IF lk \in DOMAIN d /\ d[lk].t = "list"
                 THEN UNION { IF d[lk].v[i].t = "dict"
                                THEN { <<lk, ToString(i - 1), f>> :
                                         f \in NestedRequired[lk] \ DOMAIN d[lk].v[i].v }
                                ELSE {} : i \in 1..Len(d[lk].v) }
                 ELSE {} : lk \in DOMAIN NestedRequired }
  \cup ( IF ContainerKey(d) # "" /\ d[ContainerKey(d)].t = "dict"
           THEN { <<ContainerKey(d), f>> : f \in {"image", "type"} \ DOMAIN d[ContainerKey(d)].v }
           ELSE {} )

\* The paths of the enumerated fields of document d whose value is not in the enumeration.
InvalidEnumLocs(d) ==
  ( IF ContainerKey(d) # "" /\ d[ContainerKey(d)].t = "dict"
       /\ "type" \in DOMAIN d[ContainerKey(d)].v
       /\ ~ ( d[ContainerKey(d)].v["type"].t = "str"
              /\ d[ContainerKey(d)].v["type"].v \in {"oci", "singularity"} )
      THEN { <<ContainerKey(d), "type">> } ELSE {} )
  \cup ( IF "inputs" \in DOMAIN d /\ d["inputs"].t = "list"
           THEN { <<"inputs", ToString(i - 1), "type">> :
                    i \in { j \in 1..Len(d["inputs"].v) :
                              /\ d["inputs"].v[j].t = "dict"
                              /\ "type" \in DOMAIN d["inputs"].v[j].v
                              /\ ~ ( d["inputs"].v[j].v["type"].t = "str"
                                     /\ d["inputs"].v[j].v["type"].v \in
                                          {"Number", "String", "integer", "float", "boolean",
                                           "string", "file", "image", "array"} ) } }
           ELSE {} )
  \cup ( IF "problem-class" \in DOMAIN d /\ d["problem-class"].t = "str"
            /\ d["problem-class"].v \notin ProblemClasses
           THEN { <<"problem-class">> } ELSE {} )

(***************************************************************************)
(* C1.  Every accepted record has at least one citation: a document        *)
(* without `citations`, like one whose `citations` is the empty list, is   *)
(* rejected.                                                               *)
(***************************************************************************)
CitationsNonEmpty == Accepted => Len(Items("citations")) >= 1

(***************************************************************************)
(* C2.  Whenever a document lacks a required field, at the root or in a    *)
(* nested record, validation fails and reports a `missing` error whose     *)
(* location is the path of that field.                                     *)
(***************************************************************************)
MissingFieldReported ==
  Validated =>
    \A loc \in MissingLocs(doc) : ~ result.ok /\ Err(loc, "missing") \in result.errors

\* A draft without `name`: both the root field and inputs[2].id are reported missing.
MissingFieldWitness ==
  /\ pc = "validated"
  /\ MissingLocs(doc) = { <<"name">>, <<"inputs", "2", "id">> }
  /\ result.errors = { Err(<<"name">>, "missing"), Err(<<"inputs", "2", "id">>, "missing") }

(***************************************************************************)
(* C3.  No accepted record holds an image Parameter without a sub-type     *)
(* from grayscale, color, binary, labeled, class.                          *)
(***************************************************************************)
ImageSubTypeRequired ==
  Accepted =>
    \A i \in 1..Len(Items("inputs")) :
      LET p == Items("inputs")[i].v
      IN p["type"].v = "image" => IsStr(p["sub_type"]) /\ p["sub_type"].v \in ImageSubTypes

(***************************************************************************)
(* C4.  In an accepted record every file, image or array Parameter has a   *)
(* format, one of the image formats for an image and of the array formats  *)
(* for an array.                                                           *)
(***************************************************************************)
FormatRequired ==
  Accepted =>
    \A i \in 1..Len(Items("inputs")) :
      LET p == Items("inputs")[i].v
      IN /\ p["type"].v \in {"file", "image", "array"} => IsStr(p["format"])
         /\ p["type"].v = "image" /\ IsStr(p["format"]) => p["format"].v \in ImageFormats
         /\ p["type"].v = "array" /\ IsStr(p["format"]) => p["format"].v \in ArrayFormats

(***************************************************************************)
(* C5.  In an accepted record every affiliation of every author is the id  *)
(* of one of the institutions.                                             *)
(***************************************************************************)
AffiliationsResolve ==
  Accepted =>
    \A i \in 1..Len(Items("authors")) :
      LET a == Items("authors")[i].v["affiliations"]
      IN a.t = "list" =>
           \A j \in 1..Len(a.v) :
             \E k \in 1..Len(Items("institutions")) :
               Items("institutions")[k].v["id"].v = a.v[j].v

(***************************************************************************)
(* C6.  In an accepted record the ids are pairwise distinct within inputs, *)
(* within outputs and within institutions.                                 *)
(***************************************************************************)
IdsUnique ==
  Accepted =>
    \A name \in {"inputs", "outputs", "institutions"} :
      \A i, j \in 1..Len(Items(name)) :
        i # j => Items(name)[i].v["id"].v # Items(name)[j].v["id"].v

(***************************************************************************)
(* C7.  In an accepted record every optional field the document left out   *)
(* carries its documented default, never null.                             *)
(***************************************************************************)
\* Field val of the record is `expected` when the dict spells none of `keys`.
HasDefault(dict, keys, val, expected) ==
  keys \cap DOMAIN dict = {} => val.t = expected.t /\ val.v = expected.v

ParameterDefaults(name) ==
  \A i \in 1..Len(Items(name)) :
    LET p == Items(name)[i].v
        d == doc[name].v[i].v
    IN /\ HasDefault(d, {"name"}, p["name"], p["id"])
       /\ HasDefault(d, {"description"}, p["description"], S(""))
       /\ {"value-key", "value_key"} \cap DOMAIN d = {} => IsStr(p["value_key"])
       /\ HasDefault(d, {"command-line-flag", "command_line_flag"},
                     p["command_line_flag"], S("--" \o p["id"].v))
       /\ HasDefault(d, {"optional"}, p["optional"], B(FALSE))
       /\ HasDefault(d, {"set-by-server", "set_by_server"}, p["set_by_server"], B(FALSE))

ResourcesDefaults(d, r) ==
  /\ \A k \in {"networking", "gpu", "cpuAVX", "cpuAVX2"} : HasDefault(d, {k}, r[k], B(FALSE))
  /\ HasDefault(d, {"ram-min", "ram_min"}, r["ram_min"], F(0))
  /\ HasDefault(d, {"cores-min", "cores_min"}, r["cores_min"], F(1))
  /\ r["cuda_requirements"].t = "model" =>
       \A k \in {"cuda-requirements", "cuda_requirements"} \cap DOMAIN d :
         d[k].t = "dict" =>
           HasDefault(d[k].v, {"device-memory-min", "device_memory_min"},
                      r["cuda_requirements"].v["device_memory_min"], F(0))

ConfigurationDefaults ==
  LET c == result.record.v["configuration"]
  IN c.t = "model" =>
       LET d == doc["configuration"].v
       IN /\ HasDefault(d, {"input-folder", "input_folder"}, c.v["input_folder"], S("/inputs"))
          /\ HasDefault(d, {"output-folder", "output_folder"}, c.v["output_folder"], S("/outputs"))
          /\ c.v["resources"].t = "model" =>
               ResourcesDefaults(d["resources"].v, c.v["resources"].v)

DefaultsApplied ==
  Accepted =>
    /\ \A name \in {"authors", "institutions", "outputs"} : result.record.v[name].t = "list"
    /\ ParameterDefaults("inputs")
    /\ ParameterDefaults("outputs")
    /\ \A i \in 1..Len(Items("institutions")) :
         HasDefault(doc["institutions"].v[i].v, {"name"},
                    Items("institutions")[i].v["name"], Items("institutions")[i].v["id"])
    /\ \A i \in 1..Len(Items("citations")) :
         /\ HasDefault(doc["citations"].v[i].v, {"doi"}, Items("citations")[i].v["doi"], S(""))
         /\ HasDefault(doc["citations"].v[i].v, {"description"},
                       Items("citations")[i].v["description"], S(""))
    /\ ConfigurationDefaults

(***************************************************************************)
(* C8.  A document that spells its multi-word fields with hyphens and the  *)
(* same document spelling them with underscores validate to the same       *)
(* outcome and, when accepted, to the same record.                         *)
(***************************************************************************)
\* The fields with a hyphenated external name: underscore spelling :> hyphen spelling.
HyphenNames ==
  ("schema_version" :> "schema-version") @@ ("problem_class" :> "problem-class")
  @@ ("container_image" :> "container-image") @@ ("command_line" :> "command-line")
  @@ ("input_folder" :> "input-folder") @@ ("output_folder" :> "output-folder")
  @@ ("ram_min" :> "ram-min") @@ ("cores_min" :> "cores-min")
  @@ ("cuda_requirements" :> "cuda-requirements")
  @@ ("device_memory_min" :> "device-memory-min")
  @@ ("cuda_compute_capability" :> "cuda-compute-capability")
  @@ ("value_key" :> "value-key") @@ ("command_line_flag" :> "command-line-flag")
  @@ ("default_value" :> "default-value") @@ ("set_by_server" :> "set-by-server")
  @@ ("sub_type" :> "sub-type")

Underscore(k) ==
  IF \E u \in DOMAIN HyphenNames : HyphenNames[u] = k
    THEN CHOOSE u \in DOMAIN HyphenNames : HyphenNames[u] = k
    ELSE k

Hyphen(k) == IF Underscore(k) \in DOMAIN HyphenNames THEN HyphenNames[Underscore(k)] ELSE k

\* The document with every multi-word key, at every depth, spelled one way.
RECURSIVE Spell(_, _)
Spell(val, hyphens) ==
  CASE val.t = "dict" ->
         D([k \in {IF hyphens THEN Hyphen(x) ELSE Underscore(x) : x \in DOMAIN val.v} |->
              Spell(IF Hyphen(k) \in DOMAIN val.v THEN val.v[Hyphen(k)]
                    ELSE val.v[Underscore(k)], hyphens)])
    [] val.t = "list" -> L([i \in 1..Len(val.v) |-> Spell(val.v[i], hyphens)])
    [] OTHER -> val

AliasTolerant ==
  pc = "validated" =>
    LET h == validate(Spell(D(doc), TRUE).v)
        u == validate(Spell(D(doc), FALSE).v)
    IN h.ok = u.ok /\ (h.ok => Same(h.record, u.record))

(***************************************************************************)
(* C9.  Round trip: the serialization (by alias) of an accepted record     *)
(* contains every entry of the document unchanged, and validates again to  *)
(* the same record.  Keys are compared in their hyphenated spelling, so a  *)
(* document that spells a field by its internal name is not held against   *)
(* the serialization.                                                      *)
(***************************************************************************)
RoundTrip ==
  (pc = "serialized" /\ by_alias) =>
    /\ Contains(Spell(out, TRUE), Spell(D(doc), TRUE))
    /\ validate(out.v).ok
    /\ Same(validate(out.v).record, result.record)

\* The paths of the root string fields of document d whose value is no string,
\* and of an explicitly empty `citations`.
TypeMismatchLocs(d) ==
  { <<k>> : k \in { x \in {"name", "description", "schema-version", "command-line"} :
                      x \in DOMAIN d /\ d[x].t # "str" } }
  \cup ( IF "citations" \in DOMAIN d /\ d["citations"].t = "list" /\ Len(d["citations"].v) = 0
           THEN { <<"citations">> } ELSE {} )

\* The violations that validation checks for, by path.
Violations(d) == MissingLocs(d) \cup InvalidEnumLocs(d) \cup TypeMismatchLocs(d)

====
